---------------------------- MODULE Spec2Model ----------------------------
(***************************************************************************)
(* Aethelgard-X geometric algebra engine (cga.rs, geometry_tables.rs) and  *)
(* the vision score built on it (eval.rs).                                 *)
(*                                                                         *)
(* A Multivector5D is 32 f32 lanes.  Every coefficient the engine produces *)
(* from board coordinates is a dyadic rational with a small numerator, so  *)
(* f32 arithmetic on them is exact; a multivector is modelled as integer   *)
(* numerators `lanes` over one power-of-two denominator `den`.  An f32     *)
(* scalar is modelled the same way, as [n, d].                             *)
(***************************************************************************)
EXTENDS Integers, Sequences, FiniteSets, TLC

VARIABLES
  overflow_checks,  \* build profile: TRUE when integer overflow panics (debug)
  pc,               \* "call" before the engine function runs, "returned" after
  call,             \* the function called and its arguments
  ret,              \* what the call returned
  map,              \* the Vec the GP_MAP builder is filling
  bk, ba,           \* the builder's loop counters k and a
  bpc,              \* the builder: "idle", "building", "built"
  vpc,              \* calculate_cga_vision: "idle", "pieces", "walk", "done"
  pending,          \* what is left of `for sq in occupied`
  sq,               \* the acting piece's square
  targets,          \* its sorted Vec of (dist, other_sq)
  opacity,          \* in units of 1 / OpacityDen
  vision_score,     \* in units of 1 / ScoreDen
  walk,             \* history: the targets the current walk has processed
  lazy_state,       \* per table: "Incomplete", "Running", "Complete"
  lazy_value,       \* per table: what the cell holds
  tpc,              \* per thread: "idle", "force" (in a dereference), "build"
  want,             \* per thread: the table it is dereferencing
  frames,           \* per thread: the builder closures it is inside, innermost last
  ops,              \* per thread: engine operations finished
  runs,             \* history: per table, how often its builder was entered
  seen              \* history: per table, the values dereferences yielded

visVars == <<vpc, pending, sq, targets, opacity, vision_score, walk>>

lazyVars == <<lazy_state, lazy_value, tpc, want, frames, ops, runs, seen>>

vars == <<overflow_checks, pc, call, ret, map, bk, ba, bpc, visVars, lazyVars>>

(***************************************************************************)
(* Program constants and model bounds                                      *)
(***************************************************************************)
NumLanes == 32
NumGens == 5
BoardSize == 8
\* operands of the multivector-level checks are built from coordinates 0..PoolCoef
PoolCoef == 1
\* translator displacements range over -MaxShift..MaxShift
MaxShift == 2
\* threads dereferencing the lazily built tables
NumThreads == 2
\* engine operations per thread
MaxOps == 2
\* rows of a lazily built table (its content is abstracted to a row count)
Rows == 2

Lanes == 0..(NumLanes - 1)

Threads == 1..NumThreads
Tables == {"CAYLEY_TABLE", "GP_MAP", "BOARD_SPACE"}
\* an empty cell
NoValue == [rows |-> 0, by |-> 0]

(***************************************************************************)
(* Integer helpers: bits of a usize, u32::count_ones                       *)
(***************************************************************************)
Pow2(i) == CASE i = 0 -> 1 [] i = 1 -> 2 [] i = 2 -> 4 [] i = 3 -> 8
             [] i = 4 -> 16 [] i = 5 -> 32 [] OTHER -> 64

\* (n >> i) & 1
Bit(n, i) == (n \div Pow2(i)) % 2

\* (i as u32).count_ones() for a lane index
count_ones(n) == Bit(n, 0) + Bit(n, 1) + Bit(n, 2) + Bit(n, 3) + Bit(n, 4)

(***************************************************************************)
(* basis_product_logic and the Cayley table                                *)
(***************************************************************************)
\* the inner loop `for j in (i+1)..5`: one sign flip per set bit of a_bits above i
RECURSIVE FlipAbove(_, _, _)
FlipAbove(a_bits, j, sign) ==
  IF j >= NumGens THEN sign
  ELSE FlipAbove(a_bits, j + 1, IF Bit(a_bits, j) = 1 THEN -sign ELSE sign)

\* the outer loop `for i in 0..5` over the bits of b
RECURSIVE BplLoop(_, _, _, _)
BplLoop(i, sign, a_bits, b) ==
  IF i >= NumGens THEN <<sign, a_bits>>
  ELSE IF Bit(b, i) = 1
       THEN LET s1 == FlipAbove(a_bits, i + 1, sign)
            IN  IF Bit(a_bits, i) = 1
                THEN BplLoop(i + 1, IF i = 4 THEN -s1 ELSE s1,
                             a_bits - Pow2(i), b)
                ELSE BplLoop(i + 1, s1, a_bits + Pow2(i), b)
       ELSE BplLoop(i + 1, sign, a_bits, b)

\* mutant: the metric flip of e- sits outside the self-contraction test, so
\* it is applied whenever b holds generator 4
RECURSIVE BplLoopMetricOutside(_, _, _, _)
BplLoopMetricOutside(i, sign, a_bits, b) ==
  IF i >= NumGens THEN <<sign, a_bits>>
  ELSE IF Bit(b, i) = 1
       THEN LET s1 == FlipAbove(a_bits, i + 1, sign)
                s2 == IF i = 4 THEN -s1 ELSE s1
            IN  IF Bit(a_bits, i) = 1
                THEN BplLoopMetricOutside(i + 1, s2, a_bits - Pow2(i), b)
                ELSE BplLoopMetricOutside(i + 1, s2, a_bits + Pow2(i), b)
       ELSE BplLoopMetricOutside(i + 1, sign, a_bits, b)

basis_product_logic_metric_outside(a, b) == BplLoopMetricOutside(0, 1, a, b)

basis_product_logic(a, b) == BplLoop(0, 1, a, b)

CAYLEY_TABLE == [i \in Lanes |-> [j \in Lanes |-> basis_product_logic(i, j)]]

(***************************************************************************)
(* GP_MAP: the flattened, output-grouped product table                     *)
(***************************************************************************)
\* the loop `for b in 0..32` of the builder, for one (k, a): the triples pushed
RECURSIVE GpPushB(_, _, _)
GpPushB(k, a, b) ==
  IF b >= NumLanes THEN <<>>
  ELSE LET ent == CAYLEY_TABLE[a][b]
       IN  (IF ent[2] = k THEN <<(<<ent[1], a, b>>)>> ELSE <<>>)
             \o GpPushB(k, a, b + 1)

\* mutant: the triple is pushed as (sign, b, a)
RECURSIVE GpPushBSwapped(_, _, _)
GpPushBSwapped(k, a, b) ==
  IF b >= NumLanes THEN <<>>
  ELSE LET ent == CAYLEY_TABLE[a][b]
       IN  (IF ent[2] = k THEN <<(<<ent[1], b, a>>)>> ELSE <<>>)
             \o GpPushBSwapped(k, a, b + 1)

GpPushSwapped(m, k, a) == m \o GpPushBSwapped(k, a, 0)

GpPush(m, k, a) == m \o GpPushB(k, a, 0)

\* the loop `for a in 0..32`, for one k
RECURSIVE GpBuildA(_, _, _)
GpBuildA(m, k, a) ==
  IF a >= NumLanes THEN m
  ELSE LET m2 == GpPush(m, k, a)
       IN  IF Len(m2) >= 0 THEN GpBuildA(m2, k, a + 1) ELSE m2

\* the loop `for k in 0..32`
RECURSIVE GpBuildK(_, _)
GpBuildK(m, k) ==
  IF k >= NumLanes THEN m
  ELSE LET m2 == GpBuildA(m, k, 0)
       IN  IF Len(m2) >= 0 THEN GpBuildK(m2, k + 1) ELSE m2

GP_MAP == GpBuildK(<<>>, 0)

(***************************************************************************)
(* Multivector5D                                                           *)
(***************************************************************************)
Max(a, b) == IF a >= b THEN a ELSE b

F32(n, d) == [n |-> n, d |-> d]

zero == [lanes |-> [i \in Lanes |-> 0], den |-> 1]

new_scalar(s) == [lanes |-> [zero.lanes EXCEPT ![0] = s.n], den |-> s.d]

e(i) == IF i >= 1 /\ i <= 5
        THEN [lanes |-> [zero.lanes EXCEPT ![i] = 1], den |-> 1]
        ELSE zero

n_inf == [lanes |-> [zero.lanes EXCEPT ![5] = 1, ![4] = 1], den |-> 1]

n_o == [lanes |-> [zero.lanes EXCEPT ![5] = 1, ![4] = -1], den |-> 2]

\* impl Add
Add(A, B) ==
  LET self == A
      other == B
      d == Max(self.den, other.den)
  IN  IF d > 0
      THEN [lanes |-> [i \in Lanes |-> self.lanes[i] * (d \div self.den)
                                        + other.lanes[i] * (d \div other.den)],
            den |-> d]
      ELSE zero

\* impl Sub
Sub(A, B) ==
  LET self == A
      other == B
      d == Max(self.den, other.den)
  IN  IF d > 0
      THEN [lanes |-> [i \in Lanes |-> self.lanes[i] * (d \div self.den)
                                        - other.lanes[i] * (d \div other.den)],
            den |-> d]
      ELSE zero

\* impl Mul<f32>
MulF(A, s) ==
  LET self == A
  IN  IF self.den > 0
      THEN [lanes |-> [i \in Lanes |-> self.lanes[i] * s.n], den |-> self.den * s.d]
      ELSE zero

\* one multiply-add of geometric_product: sign * self.lanes[a] * other.lanes[b]
GpTerm(A, B, idx) ==
  LET t == GP_MAP[idx + 1] IN t[1] * A[t[2]] * B[t[3]]

RECURSIVE GpAccR(_, _, _, _, _)
GpAccR(A, B, idx, n, acc) ==
  IF n = 0 THEN acc
  ELSE GpAccR(A, B, idx + 1, n - 1, acc + GpTerm(A, B, idx))

GpAcc(A, B, idx) == GpAccR(A, B, idx, NumLanes, 0)

\* (self and other are evaluated once, before the loops read them)
geometric_product(A, B) ==
  LET self == A
      other == B
  IN  IF self.den > 0 /\ other.den > 0
      THEN [lanes |-> [k \in Lanes |->
                         GpAcc(self.lanes, other.lanes, NumLanes * k)],
            den |-> self.den * other.den]
      ELSE zero

\* equality of two multivectors as f32 values, lane by lane
MvEq(A, B) ==
  LET x == A
      y == B
  IN  x.den > 0 /\ y.den > 0
        /\ \A i \in Lanes : x.lanes[i] * y.den = y.lanes[i] * x.den

\* a multivector with coefficient 1.0 on one lane
Blade(a) == [lanes |-> [zero.lanes EXCEPT ![a] = 1], den |-> 1]

Neg(A) ==
  LET self == A
  IN  IF self.den > 0
      THEN [lanes |-> [i \in Lanes |-> -self.lanes[i]], den |-> self.den]
      ELSE zero

\* point(x, y) for integer-valued x, y (every caller passes board coordinates)
point(x, y) ==
  Add(Add(Add(n_o, MulF(e(1), F32(x, 1))), MulF(e(2), F32(y, 1))),
      MulF(n_inf, F32(x * x + y * y, 2)))

\* mutant: the e- lane is added, not subtracted (a Euclidean metric)
inner_product_euclidean(A, B) ==
  LET self == A
      other == B
  IN  IF self.den > 0 /\ other.den > 0
      THEN F32(self.lanes[0] * other.lanes[0] + self.lanes[1] * other.lanes[1]
                 + self.lanes[2] * other.lanes[2] + self.lanes[3] * other.lanes[3]
                 + self.lanes[4] * other.lanes[4] + self.lanes[5] * other.lanes[5],
               self.den * other.den)
      ELSE F32(0, 1)

inner_product(A, B) ==
  LET self == A
      other == B
  IN  IF self.den > 0 /\ other.den > 0
      THEN F32(self.lanes[0] * other.lanes[0] + self.lanes[1] * other.lanes[1]
                 + self.lanes[2] * other.lanes[2] + self.lanes[3] * other.lanes[3]
                 + self.lanes[4] * other.lanes[4] - self.lanes[5] * other.lanes[5],
               self.den * other.den)
      ELSE F32(0, 1)

(***************************************************************************)
(* reverse: the sign test k * (k - 1) / 2 % 2 == 1 in u32 arithmetic.      *)
(* A u32 is kept as two 16-bit halves <<hi, lo>>.  With overflow checks    *)
(* an overflowing operation panics; without, it wraps modulo 2^32.         *)
(***************************************************************************)
Half == 65536

Panic == [ok |-> FALSE, val |-> zero]
Ok(v) == [ok |-> TRUE, val |-> v]

\* k - 1
U32SubOne(k) ==
  IF k >= 1 THEN [ok |-> TRUE, hi |-> 0, lo |-> k - 1]
  ELSE IF overflow_checks THEN [ok |-> FALSE, hi |-> 0, lo |-> 0]
       ELSE [ok |-> TRUE, hi |-> Half - 1, lo |-> Half - 1]

\* k * v for a small k
U32Mul(k, v) ==
  LET lo_full == k * v.lo
      hi_full == k * v.hi + (lo_full \div Half)
  IN  IF hi_full >= Half /\ overflow_checks
      THEN [ok |-> FALSE, hi |-> 0, lo |-> 0]
      ELSE [ok |-> TRUE, hi |-> hi_full % Half, lo |-> lo_full % Half]

\* v / 2 % 2
U32HalfParity(v) == (((v.hi % 2) * (Half \div 2)) + (v.lo \div 2)) % 2

\* the test of one lane: [ok, flip]
reverse_test(i) ==
  LET k == count_ones(i)
      d == U32SubOne(k)
  IN  IF ~d.ok THEN [ok |-> FALSE, flip |-> FALSE]
      ELSE LET m == U32Mul(k, d)
           IN  IF ~m.ok THEN [ok |-> FALSE, flip |-> FALSE]
               ELSE [ok |-> TRUE, flip |-> U32HalfParity(m) = 1]

\* (the loop panics at the first lane whose test overflows; self is evaluated
\* before the loop starts)
reverse(A) ==
  LET self == A
  IN  IF self.den > 0 /\ \E i \in Lanes : ~reverse_test(i).ok THEN Panic
      ELSE Ok([lanes |-> [i \in Lanes |->
                            IF reverse_test(i).flip THEN -self.lanes[i]
                            ELSE self.lanes[i]],
               den |-> self.den])

\* translator(dx, dy) for integer-valued dx, dy
translator(dx, dy) ==
  LET one == new_scalar(F32(1, 1))
      d == Add(MulF(e(1), F32(dx, 1)), MulF(e(2), F32(dy, 1)))
  IN  Sub(one, MulF(geometric_product(d, n_inf), F32(1, 2)))

transform(M, versor) ==
  LET v == versor
      rev == reverse(v)
  IN  IF ~rev.ok THEN Panic
      ELSE Ok(geometric_product(geometric_product(v, M), rev.val))

(***************************************************************************)
(* wedge, rook_blade, bishop_blade                                         *)
(***************************************************************************)
\* the inner loop over the lanes j of `other`, for one lane i of `self`
RECURSIVE WedgeJ(_, _, _, _, _)
WedgeJ(res, A, B, i, j) ==
  IF j >= NumLanes THEN res
  ELSE IF B.lanes[j] = 0 THEN WedgeJ(res, A, B, i, j + 1)
  ELSE LET ent == CAYLEY_TABLE[i][j]
           k == ent[2]
           r2 == IF count_ones(k) = count_ones(i) + count_ones(j)
                 THEN [res EXCEPT ![k] = @ + ent[1] * A.lanes[i] * B.lanes[j]]
                 ELSE res
       IN  IF r2[0] = r2[0] THEN WedgeJ(r2, A, B, i, j + 1) ELSE r2

\* the outer loop over the lanes i of `self`
RECURSIVE WedgeI(_, _, _, _)
WedgeI(res, A, B, i) ==
  IF i >= NumLanes THEN res
  ELSE IF A.lanes[i] = 0 THEN WedgeI(res, A, B, i + 1)
  ELSE LET r2 == WedgeJ(res, A, B, i, 0)
       IN  IF r2[0] = r2[0] THEN WedgeI(r2, A, B, i + 1) ELSE r2

wedge(A, B) ==
  LET self == A
      other == B
  IN  IF self.den > 0 /\ other.den > 0
      THEN [lanes |-> WedgeI(zero.lanes, self, other, 0),
            den |-> self.den * other.den]
      ELSE zero

rook_blade(p) == wedge(wedge(p, e(1)), n_inf)

bishop_blade(p) == wedge(wedge(p, Add(e(1), e(2))), n_inf)

(***************************************************************************)
(* BOARD_SPACE and the incidence test of calculate_cga_vision              *)
(***************************************************************************)
Squares == 0..(BoardSize * BoardSize - 1)

File(s) == s % BoardSize
Rank(s) == s \div BoardSize

BOARD_SPACE == [s \in Squares |-> point(File(s), Rank(s))]

Abs(n) == IF n < 0 THEN -n ELSE n

\* b.inner_product(&other_p).abs() < 0.01
incident(b, other_p) ==
  LET ip == inner_product(b, other_p)
  IN  ip.d > 0 /\ 100 * Abs(ip.n) < ip.d

(***************************************************************************)
(* Inputs                                                                  *)
(***************************************************************************)
Coefs == 0..PoolCoef

Pool == {n_o, n_inf} \cup {point(c, c + 1) : c \in Coefs}
          \cup {translator(c, 1) : c \in Coefs}

Blades == {Blade(a) : a \in Lanes}

Operands == Blades \cup Pool

Shifts == (-MaxShift)..MaxShift

Coords == 0..(BoardSize - 1)

AlgebraCalls ==
  [fn : {"square"}, i : 1..NumGens]
    \cup [fn : {"assoc_blade"}, a : Lanes, b : Lanes, c : Lanes]
    \cup [fn : {"assoc"}, A : Pool, B : Pool, C : Pool]
    \cup [fn : {"antiauto"}, A : Operands, B : Operands]
    \cup [fn : {"revrev"}, A : Operands]
    \cup [fn : {"wedge"}, i : 1..NumGens, j : 1..NumGens]

BoardCalls ==
  [fn : {"inner"}, s : Squares, t : Squares]
    \cup [fn : {"point"}, x : Coords, y : Coords]
    \cup {c \in [fn : {"transform"}, x : Coords, y : Coords,
                 dx : Shifts, dy : Shifts] :
            c.x + c.dx \in Coords /\ c.y + c.dy \in Coords}
    \cup {c \in [fn : {"incidence"}, p : Squares, q : Squares] : c.p # c.q}

NoRet == [none |-> TRUE]

VisIdle ==
  /\ vpc = "idle"
  /\ pending = <<>>
  /\ sq = 0
  /\ targets = <<>>
  /\ opacity = 0
  /\ vision_score = 0
  /\ walk = <<>>

LazyIdle ==
  /\ lazy_state = [T \in Tables |-> "Incomplete"]
  /\ lazy_value = [T \in Tables |-> NoValue]
  /\ tpc = [t \in Threads |-> "idle"]
  /\ want = [t \in Threads |-> "GP_MAP"]
  /\ frames = [t \in Threads |-> <<>>]
  /\ ops = [t \in Threads |-> 0]
  /\ runs = [T \in Tables |-> 0]
  /\ seen = [T \in Tables |-> {}]

Idle ==
  /\ map = <<>>
  /\ bk = 0
  /\ ba = 0
  /\ bpc = "idle"
  /\ VisIdle
  /\ LazyIdle

Init ==
  /\ overflow_checks \in BOOLEAN
  /\ pc = "call"
  /\ call \in AlgebraCalls
  /\ ret = NoRet
  /\ Idle

InitBoard ==
  /\ overflow_checks \in BOOLEAN
  /\ pc = "call"
  /\ call \in BoardCalls
  /\ ret = NoRet
  /\ Idle

InitTables ==
  /\ overflow_checks \in BOOLEAN
  /\ pc = "call"
  /\ call = [fn |-> "GP_MAP"]
  /\ ret = NoRet
  /\ Idle

(***************************************************************************)
(* Calls of the algebra                                                    *)
(***************************************************************************)
Return(v) ==
  /\ pc = "call"
  /\ ret' = v
  /\ pc' = "returned"
  /\ UNCHANGED <<overflow_checks, call, map, bk, ba, bpc, visVars, lazyVars>>

\* geometric_product(e(i), e(i)) beside inner_product(e(i), e(i))
CallSquare ==
  /\ call.fn = "square"
  /\ Return([gp |-> geometric_product(e(call.i), e(call.i)),
             ip |-> inner_product(e(call.i), e(call.i))])

\* a signed basis blade <<sign, blade>> times blade b, as one term
\* sign * lanes[a] * lanes[b] of the product contributes
BladeMulR(x, b) ==
  LET ent == CAYLEY_TABLE[x[2]][b] IN <<x[1] * ent[1], ent[2]>>

BladeMulL(a, x) ==
  LET ent == CAYLEY_TABLE[a][x[2]] IN <<x[1] * ent[1], ent[2]>>

CallAssocBlade ==
  /\ call.fn = "assoc_blade"
  /\ Return([left |-> BladeMulR(BladeMulR(<<1, call.a>>, call.b), call.c),
             right |-> BladeMulL(call.a, BladeMulR(<<1, call.b>>, call.c))])

CallAssoc ==
  /\ call.fn = "assoc"
  /\ Return([left |-> geometric_product(geometric_product(call.A, call.B), call.C),
             right |-> geometric_product(call.A, geometric_product(call.B, call.C))])

\* reverse(A * B) beside reverse(B) * reverse(A)
CallAntiAuto ==
  /\ call.fn = "antiauto"
  /\ LET rb == reverse(call.B)
         ra == reverse(call.A)
     IN  Return([lhs |-> reverse(geometric_product(call.A, call.B)),
                 rhs |-> IF rb.ok /\ ra.ok
                         THEN Ok(geometric_product(rb.val, ra.val))
                         ELSE Panic])

\* reverse(reverse(A))
CallRevRev ==
  /\ call.fn = "revrev"
  /\ LET r1 == reverse(call.A)
     IN  Return(IF r1.ok THEN reverse(r1.val) ELSE Panic)

\* wedge(e(i), e(j)) beside wedge(e(j), e(i))
CallWedge ==
  /\ call.fn = "wedge"
  /\ Return([ij |-> wedge(e(call.i), e(call.j)),
             ji |-> wedge(e(call.j), e(call.i))])

Next ==
  \/ CallSquare
  \/ CallAssocBlade
  \/ CallAssoc
  \/ CallAntiAuto
  \/ CallRevRev
  \/ CallWedge

Spec == Init /\ [][Next]_vars

(***************************************************************************)
(* Calls on the board                                                      *)
(***************************************************************************)
CallInner ==
  /\ call.fn = "inner"
  /\ Return(inner_product(BOARD_SPACE[call.s], BOARD_SPACE[call.t]))

CallPoint ==
  /\ call.fn = "point"
  /\ Return(point(call.x, call.y))

CallTransform ==
  /\ call.fn = "transform"
  /\ Return(transform(point(call.x, call.y), translator(call.dx, call.dy)))

\* the incidence test of a rook on square p against another square q
CallIncidence ==
  /\ call.fn = "incidence"
  /\ LET b == rook_blade(BOARD_SPACE[call.p])
     IN  Return([ip |-> inner_product(b, BOARD_SPACE[call.q]),
                 hit |-> incident(b, BOARD_SPACE[call.q])])

NextBoard ==
  \/ CallInner
  \/ CallPoint
  \/ CallTransform
  \/ CallIncidence

SpecBoard == InitBoard /\ [][NextBoard]_vars

(***************************************************************************)
(* The GP_MAP builder, one (k, a) iteration per step                       *)
(***************************************************************************)
BuildStart ==
  /\ bpc = "idle"
  /\ call.fn = "GP_MAP"
  /\ map' = <<>>
  /\ bk' = 0
  /\ ba' = 0
  /\ bpc' = "building"
  /\ UNCHANGED <<overflow_checks, pc, call, ret, visVars, lazyVars>>

BuildStep ==
  /\ bpc = "building"
  /\ bk < NumLanes
  /\ map' = GpPush(map, bk, ba)
  /\ IF ba + 1 < NumLanes
     THEN ba' = ba + 1 /\ bk' = bk
     ELSE ba' = 0 /\ bk' = bk + 1
  /\ UNCHANGED <<overflow_checks, pc, call, ret, bpc, visVars, lazyVars>>

BuildDone ==
  /\ bpc = "building"
  /\ bk = NumLanes
  /\ bpc' = "built"
  /\ ret' = [len |-> Len(map)]
  /\ pc' = "returned"
  /\ UNCHANGED <<overflow_checks, call, map, bk, ba, visVars, lazyVars>>

NextTables ==
  \/ BuildStart
  \/ BuildStep
  \/ BuildDone

SpecTables == InitTables /\ [][NextTables]_vars

(***************************************************************************)
(* calculate_cga_vision (eval.rs): the attenuation walk of each slider     *)
(*                                                                         *)
(* opacity and vision_score are f32.  opacity is 1.0 times a power of the  *)
(* literal 0.2, or 0.0; it is modelled as an integer number of             *)
(* 1 / OpacityDen, the score as an integer number of 1 / ScoreDen.  The    *)
(* rounding of 0.2 (relative error 2^-24) is far from deciding the         *)
(* comparison with 0.05, and products with opacity 1.0 are exact.          *)
(***************************************************************************)
OpacityDen == 625
ScoreDen == 1250
\* boards carry the two kings and at most MaxExtra further pieces
MaxExtra == 2

White == "White"
Black == "Black"
Colors == {White, Black}
\* impl Not for Color
NotColor(c) == IF c = White THEN Black ELSE White

SliderPieces == {"Rook", "Bishop", "Queen"}
ExtraPieces == {"Pawn", "Knight", "Bishop", "Rook", "Queen"}

\* the match on target_piece
piece_value(target_piece) ==
  CASE target_piece = "Pawn" -> 1
    [] target_piece \in {"Knight", "Bishop"} -> 3
    [] target_piece = "Rook" -> 5
    [] target_piece = "Queen" -> 9
    [] target_piece = "King" -> 0

\* board.occupied(), iterated from the lowest square index
occupied(board) ==
  LET occ == DOMAIN board
  IN  [i \in 1..Cardinality(occ) |->
         CHOOSE s \in occ : Cardinality({t \in occ : t < s}) = i - 1]

\* the match on piece; only called for sliders
slider_blade(piece, p_vec) ==
  CASE piece = "Rook" -> rook_blade(p_vec)
    [] piece = "Bishop" -> bishop_blade(p_vec)
    [] piece = "Queen" -> Add(rook_blade(p_vec), bishop_blade(p_vec))

dist(from, other_sq) ==
  (Rank(from) - Rank(other_sq)) * (Rank(from) - Rank(other_sq))
    + (File(from) - File(other_sq)) * (File(from) - File(other_sq))

\* the inner loop over occupied: (dist, other_sq) of every square the blade meets
RECURSIVE collect_targets(_, _, _, _)
collect_targets(b, occ, from, n) ==
  IF n = 0 THEN <<>>
  ELSE LET rest == collect_targets(b, occ, from, n - 1)
           other_sq == occ[n]
       IN  IF other_sq # from /\ incident(b, BOARD_SPACE[other_sq])
           THEN Append(rest, <<dist(from, other_sq), other_sq>>)
           ELSE rest

\* targets.sort_by_key(|k| k.0): a stable sort
RECURSIVE sort_by_key(_, _)
sort_by_key(ts, n) ==
  IF n = 0 THEN <<>>
  ELSE LET s == sort_by_key(ts, n - 1)
           t == ts[n]
           k == Cardinality({i \in 1..Len(s) : s[i][1] <= t[1]})
       IN  SubSeq(s, 1, k) \o <<t>> \o SubSeq(s, k + 1, Len(s))

slider_targets(board, from) ==
  LET b == slider_blade(board[from].piece, BOARD_SPACE[from])
      occ == occupied(board)
  IN  IF b.den > 0
      THEN LET ts == collect_targets(b, occ, from, Len(occ))
           IN  sort_by_key(ts, Len(ts))
      ELSE <<>>

\* target_color == !us
is_enemy(target_color, us) == target_color = NotColor(us)

\* the amount without the acting piece's colour
added_amount_unsigned(color, us, enemy, value, op) ==
  IF enemy THEN 10 * value * op ELSE value * op

\* what one target adds to vision_score, in 1 / ScoreDen:
\* +-5.0 * value * opacity for an enemy, +-0.5 * value * opacity otherwise
added_amount(color, us, enemy, value, op) ==
  LET mag == IF enemy THEN 10 * value * op ELSE value * op
  IN  IF color = us THEN mag ELSE -mag

\* opacity = 0.0 in the enemy branch, opacity *= 0.2 in the other
next_opacity(enemy, op) == IF enemy THEN 0 ELSE op \div 5

\* a break at opacity < 0.005
below_threshold_tenth(op) == 200 * op < OpacityDen

\* if opacity < 0.05 { break; }
below_threshold(op) == 20 * op < OpacityDen

(***************************************************************************)
(* Boards                                                                  *)
(***************************************************************************)
Man(piece, color) == [piece |-> piece, color |-> color]

\* squares of the further pieces, and king squares none of them attacks
PieceSquares == {12, 27, 29, 43}
KingSquare == [c \in Colors |-> IF c = White THEN 1 ELSE 62]

Kings(wk, bk2) ==
  [s \in {wk, bk2} |-> IF s = wk THEN Man("King", White) ELSE Man("King", Black)]

GeneralBoards ==
  LET placements ==
        UNION {[E -> [piece : ExtraPieces, color : Colors]] :
                 E \in {E \in SUBSET PieceSquares : Cardinality(E) <= MaxExtra}}
  IN  {Kings(KingSquare[White], KingSquare[Black]) @@ pl : pl \in placements}

Adjacent(s, t) ==
  /\ Abs(File(s) - File(t)) <= 1
  /\ Abs(Rank(s) - Rank(t)) <= 1

\* a white rook on (3,0), a black rook on (3,7), the kings anywhere the
\* position is legal with white to move
RookSquare == [c \in Colors |-> IF c = White THEN 3 ELSE 59]
Rooks ==
  [s \in {RookSquare[White], RookSquare[Black]} |->
     IF s = RookSquare[White] THEN Man("Rook", White) ELSE Man("Rook", Black)]

FacingRookBoards ==
  LET free == Squares \ DOMAIN Rooks
  IN  {Kings(k[1], k[2]) @@ Rooks :
         k \in {k \in free \X free :
                  /\ ~Adjacent(k[1], k[2])
                  /\ File(k[2]) # File(RookSquare[White])
                  /\ Rank(k[2]) # Rank(RookSquare[White])}}

VisionCalls ==
  [fn : {"calculate_cga_vision"}, board : GeneralBoards, us : Colors]
    \cup [fn : {"calculate_cga_vision"}, board : FacingRookBoards, us : {White}]

InitVision ==
  /\ overflow_checks \in BOOLEAN
  /\ pc = "call"
  /\ call \in VisionCalls
  /\ ret = NoRet
  /\ Idle

AlgUnchanged == UNCHANGED <<overflow_checks, call, map, bk, ba, bpc, lazyVars>>

\* let us = ..; let mut vision_score = 0.0; let occupied = board.occupied()
VisionStart ==
  /\ pc = "call"
  /\ call.fn = "calculate_cga_vision"
  /\ vpc = "idle"
  /\ vpc' = "pieces"
  /\ pending' = occupied(call.board)
  /\ vision_score' = 0
  /\ UNCHANGED <<pc, ret, sq, targets, opacity, walk>>
  /\ AlgUnchanged

\* an occupied square whose piece has no blade
PieceSkip ==
  /\ vpc = "pieces"
  /\ pending # <<>>
  /\ call.board[Head(pending)].piece \notin SliderPieces
  /\ pending' = Tail(pending)
  /\ UNCHANGED <<pc, ret, vpc, sq, targets, opacity, vision_score, walk>>
  /\ AlgUnchanged

\* a slider: its blade, its targets, the sort, opacity = 1.0
PieceTargets ==
  /\ vpc = "pieces"
  /\ pending # <<>>
  /\ call.board[Head(pending)].piece \in SliderPieces
  /\ sq' = Head(pending)
  /\ pending' = Tail(pending)
  /\ targets' = slider_targets(call.board, Head(pending))
  /\ opacity' = OpacityDen
  /\ walk' = <<>>
  /\ vpc' = IF targets' = <<>> THEN "pieces" ELSE "walk"
  /\ UNCHANGED <<pc, ret, vision_score>>
  /\ AlgUnchanged

\* one iteration of `for (_, target_sq) in targets`, its break included
WalkStep ==
  /\ vpc = "walk"
  /\ LET target_sq == targets[Len(walk) + 1][2]
         target_piece == call.board[target_sq].piece
         target_color == call.board[target_sq].color
         color == call.board[sq].color
         value == piece_value(target_piece)
         enemy == is_enemy(target_color, call.us)
         added == added_amount(color, call.us, enemy, value, opacity)
     IN  /\ vision_score' = vision_score + added
         /\ opacity' = next_opacity(enemy, opacity)
         /\ walk' = Append(walk, [target_sq |-> target_sq, before |-> opacity,
                                  added |-> added])
         /\ vpc' = IF below_threshold(opacity') \/ Len(walk') = Len(targets)
                   THEN "pieces" ELSE "walk"
  /\ UNCHANGED <<pc, ret, pending, sq, targets>>
  /\ AlgUnchanged

\* the loop over occupied is exhausted: vision_score is returned
VisionReturn ==
  /\ vpc = "pieces"
  /\ pending = <<>>
  /\ vpc' = "done"
  /\ ret' = vision_score
  /\ pc' = "returned"
  /\ UNCHANGED <<pending, sq, targets, opacity, vision_score, walk>>
  /\ AlgUnchanged

NextVision ==
  \/ VisionStart
  \/ PieceSkip
  \/ PieceTargets
  \/ WalkStep
  \/ VisionReturn

SpecVision == InitVision /\ [][NextVision]_vars

(***************************************************************************)
(* The three lazily built tables under concurrent access                   *)
(*                                                                         *)
(* Each static is a once_cell::sync::Lazy.  A dereference forces the cell: *)
(* a complete cell is read; an incomplete one is claimed by exactly one    *)
(* thread, which runs the builder closure and publishes what it returns;   *)
(* a thread that finds the cell running waits until it is complete.  The   *)
(* builder fills a local table and returns it by value.  A table's content *)
(* is abstracted to the number of rows filled and the thread that built it.*)
(***************************************************************************)
\* the tables a builder closure dereferences: GP_MAP reads CAYLEY_TABLE[a][b]
BuilderReads(T) == IF T = "GP_MAP" THEN {"CAYLEY_TABLE"} ELSE {}

\* a claim that leaves the cell incomplete, as an unsynchronised check would
claim_state_unsynchronised(s) == s

\* the state a claimed cell is left in
claim_state(s) == "Running"

InitLazy ==
  /\ overflow_checks \in BOOLEAN
  /\ pc = "call"
  /\ call = [fn |-> "threads"]
  /\ ret = NoRet
  /\ Idle

Top(t) == frames[t][Len(frames[t])]

SetTop(t, f) == [frames EXCEPT ![t] = [@ EXCEPT ![Len(@)] = f]]

LazyUnchanged ==
  UNCHANGED <<overflow_checks, pc, call, ret, map, bk, ba, bpc, visVars>>

\* an engine function dereferences a static: geometric_product GP_MAP,
\* wedge CAYLEY_TABLE, calculate_cga_vision BOARD_SPACE
EngineDeref(t, T) ==
  /\ tpc[t] = "idle"
  /\ ops[t] < MaxOps
  /\ want' = [want EXCEPT ![t] = T]
  /\ tpc' = [tpc EXCEPT ![t] = "force"]
  /\ UNCHANGED <<lazy_state, lazy_value, runs, frames, seen, ops>>
  /\ LazyUnchanged

\* the cell is complete: the dereference yields the published table; inside a
\* builder the row that needed it is filled
LazyRead(t) ==
  /\ tpc[t] = "force"
  /\ lazy_state[want[t]] = "Complete"
  /\ seen' = [seen EXCEPT ![want[t]] = @ \cup {lazy_value[want[t]]}]
  /\ IF frames[t] = <<>>
     THEN /\ tpc' = [tpc EXCEPT ![t] = "idle"]
          /\ ops' = [ops EXCEPT ![t] = @ + 1]
          /\ UNCHANGED frames
     ELSE /\ tpc' = [tpc EXCEPT ![t] = "build"]
          /\ frames' = SetTop(t, [Top(t) EXCEPT !.rows = @ + 1])
          /\ UNCHANGED ops
  /\ UNCHANGED <<lazy_state, lazy_value, runs, want>>
  /\ LazyUnchanged

\* the cell is incomplete: this thread claims it and enters the builder
LazyClaim(t) ==
  /\ tpc[t] = "force"
  /\ lazy_state[want[t]] = "Incomplete"
  /\ lazy_state' = [lazy_state EXCEPT ![want[t]] = claim_state(@)]
  /\ runs' = [runs EXCEPT ![want[t]] = @ + 1]
  /\ frames' = [frames EXCEPT ![t] = Append(@, [table |-> want[t], rows |-> 0])]
  /\ tpc' = [tpc EXCEPT ![t] = "build"]
  /\ UNCHANGED <<lazy_value, want, seen, ops>>
  /\ LazyUnchanged

\* the builder fills the next row of its local table, after dereferencing
\* the table the row is computed from, if any
LazyFill(t) ==
  /\ tpc[t] = "build"
  /\ Top(t).rows < Rows
  /\ IF BuilderReads(Top(t).table) = {}
     THEN /\ frames' = SetTop(t, [Top(t) EXCEPT !.rows = @ + 1])
          /\ UNCHANGED <<want, tpc>>
     ELSE /\ want' = [want EXCEPT ![t] = CHOOSE T \in BuilderReads(Top(t).table) : TRUE]
          /\ tpc' = [tpc EXCEPT ![t] = "force"]
          /\ UNCHANGED frames
  /\ UNCHANGED <<lazy_state, lazy_value, runs, seen, ops>>
  /\ LazyUnchanged

\* the closure returns its table: the cell stores it and becomes complete,
\* and the dereference that claimed the cell goes on to read it
LazyPublish(t) ==
  /\ tpc[t] = "build"
  /\ Top(t).rows = Rows
  /\ lazy_value' = [lazy_value EXCEPT ![Top(t).table] = [rows |-> Top(t).rows, by |-> t]]
  /\ lazy_state' = [lazy_state EXCEPT ![Top(t).table] = "Complete"]
  /\ frames' = [frames EXCEPT ![t] = SubSeq(@, 1, Len(@) - 1)]
  /\ want' = [want EXCEPT ![t] = Top(t).table]
  /\ tpc' = [tpc EXCEPT ![t] = "force"]
  /\ UNCHANGED <<runs, seen, ops>>
  /\ LazyUnchanged

NextLazy ==
  \E t \in Threads :
    \/ \E T \in Tables : EngineDeref(t, T)
    \/ LazyRead(t)
    \/ LazyClaim(t)
    \/ LazyFill(t)
    \/ LazyPublish(t)

SpecLazy == InitLazy /\ [][NextLazy]_vars

Returned(fn) == pc = "returned" /\ call.fn = fn

(***************************************************************************)
(* Claims                                                                  *)
(***************************************************************************)
Scalar(v) == [lanes |-> [zero.lanes EXCEPT ![0] = v], den |-> 1]

\* C1: for every i in 1..5, geometric_product(e(i), e(i)) is a pure scalar
\* equal to inner_product(e(i), e(i)): +1 for i = 1..4 and -1 for i = 5,
\* with all 31 non-scalar lanes 0.
C1_BasisSquares ==
  Returned("square") =>
    LET s == IF call.i <= 4 THEN 1 ELSE -1
    IN  /\ MvEq(ret.gp, Scalar(s))
        /\ ret.ip.n = s * ret.ip.d
        /\ ret.gp.lanes[0] * ret.ip.d = ret.ip.n * ret.gp.den

\* C2: the geometric product is associative: (a*b)*c and a*(b*c) give the
\* same blade and the same sign for all basis blades a, b, c, and
\* (A*B)*C = A*(B*C) lane by lane for multivectors A, B, C.
C2_Associative ==
  /\ Returned("assoc_blade") => ret.left = ret.right
  /\ Returned("assoc") => MvEq(ret.left, ret.right)

\* e12 * e13 * e- = -(e23 e-), whichever product is taken first
C2_Witness ==
  /\ Returned("assoc_blade")
  /\ call.a = 3 /\ call.b = 5 /\ call.c = 16
  /\ ret.left = <<-1, 22>>
  /\ ret.right = <<-1, 22>>

\* C3: once GP_MAP is built it holds exactly 1024 triples; each of the 32
\* entries at positions 32k..32k+31 satisfies CAYLEY_TABLE[a][b] = (sign, k);
\* and every ordered pair (a, b) appears in exactly one triple.
C3_TableConsistent ==
  bpc = "built" =>
    /\ Len(map) = NumLanes * NumLanes
    /\ \A idx \in 0..(Len(map) - 1) :
         LET t == map[idx + 1]
         IN  CAYLEY_TABLE[t[2]][t[3]] = <<t[1], idx \div NumLanes>>
    /\ \A a \in Lanes : \A b \in Lanes :
         Cardinality({idx \in 1..Len(map) :
                        map[idx][2] = a /\ map[idx][3] = b}) = 1

C3_Witness ==
  /\ bpc = "built"
  /\ ret.len = 1024
  /\ map[1] = <<1, 0, 0>>
  /\ map[1024] = <<1, 31, 0>>

\* while the builder runs, each (k, a) iteration has pushed exactly one triple
BuilderAligned == bpc = "building" => Len(map) = NumLanes * bk + ba

\* C4: reversion is an anti-automorphism of the geometric product:
\* reverse(A*B) = reverse(B)*reverse(A) lane by lane, for all A and B.
C4_AntiAutomorphism ==
  Returned("antiauto") =>
    /\ ret.lhs.ok
    /\ ret.rhs.ok
    /\ MvEq(ret.lhs.val, ret.rhs.val)

\* in a build without overflow checks the two sides are values and agree
AntiAutomorphismWhenWrapping ==
  (Returned("antiauto") /\ ~overflow_checks) =>
    ret.lhs.ok /\ ret.rhs.ok /\ MvEq(ret.lhs.val, ret.rhs.val)

\* C5: reversion is an involution: reverse returns a value and
\* reverse(reverse(A)) = A on all 32 lanes.
C5_ReverseInvolution ==
  Returned("revrev") => ret.ok /\ MvEq(ret.val, call.A)

InvolutionWhenWrapping ==
  (Returned("revrev") /\ ~overflow_checks) => ret.ok /\ MvEq(ret.val, call.A)

\* C6: for every pair of board squares s, t the inner product of their
\* BOARD_SPACE points is -1/2 * ((xs - xt)^2 + (ys - yt)^2).
C6_InnerIsHalfSquaredDistance ==
  Returned("inner") =>
    LET dx == File(call.s) - File(call.t)
        dy == Rank(call.s) - Rank(call.t)
    IN  2 * ret.n = -(dx * dx + dy * dy) * ret.d

\* a1 against h8: -1/2 * (49 + 49)
C6_Witness ==
  /\ Returned("inner")
  /\ call.s = 0 /\ call.t = 63
  /\ ret.n = -49 * ret.d

\* C7: every point(x, y) has nonzero coefficients only in grade-1 lanes,
\* the grade of lane i being the population count of i.
C7_PointIsGradeOne ==
  Returned("point") =>
    \A i \in Lanes : ret.lanes[i] # 0 => count_ones(i) = 1

\* C8: point(x, y).transform(&translator(dx, dy)) equals point(x+dx, y+dy)
\* on all 32 lanes, for all on-board (x, y) and (x+dx, y+dy).
C8_TranslatorMovesPoint ==
  Returned("transform") =>
    /\ ret.ok
    /\ MvEq(ret.val, point(call.x + call.dx, call.y + call.dy))

\* C9: a square Q on the file of P is incident to rook_blade(P), and a
\* square Q sharing neither file nor rank with P is not.
C9_IncidenceDiscriminates ==
  Returned("incidence") =>
    /\ File(call.q) = File(call.p) => ret.hit
    /\ (File(call.q) # File(call.p) /\ Rank(call.q) # Rank(call.p)) => ~ret.hit

\* C10: wedge(e(i), e(j)) = -wedge(e(j), e(i)) on all 32 lanes for
\* i, j in 1..5, and wedge(e(i), e(i)) is the zero multivector.
C10_WedgeAntisymmetric ==
  Returned("wedge") =>
    /\ MvEq(ret.ij, Neg(ret.ji))
    /\ call.i = call.j => MvEq(ret.ij, zero)

(***************************************************************************)
(* Claims about calculate_cga_vision                                       *)
(***************************************************************************)
InVision == call.fn = "calculate_cga_vision"

\* the current walk is over (its break was taken or its targets ran out)
WalkEnded == InVision /\ vpc \in {"pieces", "done"} /\ walk # <<>>

RECURSIVE WalkSum(_, _)
WalkSum(w, n) == IF n = 0 THEN 0 ELSE WalkSum(w, n - 1) + w[n].added

TargetColor(i) == call.board[walk[i].target_sq].color
TargetValue(i) == piece_value(call.board[walk[i].target_sq].piece)
TargetIsEnemy(i) == TargetColor(i) = NotColor(call.us)
\* opacity after the i-th processed target
OpacityAfter(i) == IF i < Len(walk) THEN walk[i + 1].before ELSE opacity

\* C11: with white to move, a white rook on (3,0) and a black rook on (3,7)
\* and no other piece but the kings, the white rook's walk adds exactly
\* +25.0 to the vision score and the black rook's walk exactly -25.0.
C11_FacingRooksScore ==
  (WalkEnded /\ RookSquare[White] \in DOMAIN call.board) =>
    WalkSum(walk, Len(walk)) =
      IF call.board[sq].color = White THEN 25 * ScoreDen ELSE -25 * ScoreDen

\* the walk's tiers, without the sign of the added amount
WalkTiers ==
  \A i \in 1..Len(walk) :
    /\ walk[i].target_sq = targets[i][2]
    /\ walk[i].before = IF i = 1 THEN OpacityDen ELSE OpacityAfter(i - 1)
    /\ \A j \in 1..(i - 1) : ~TargetIsEnemy(j)
    /\ IF TargetIsEnemy(i)
       THEN /\ Abs(walk[i].added) * OpacityDen
                 = 5 * TargetValue(i) * walk[i].before * ScoreDen
            /\ OpacityAfter(i) = 0
       ELSE /\ 2 * Abs(walk[i].added) * OpacityDen
                 = TargetValue(i) * walk[i].before * ScoreDen
            /\ 5 * OpacityAfter(i) = walk[i].before

\* C13: in one slider's walk the targets are processed in order from
\* opacity 1.0; a target of the colour opposite to the side to move adds
\* 5.0 * value * opacity and sets opacity to 0, any other target adds
\* 0.5 * value * opacity and multiplies opacity by 0.2; the added amount is
\* positive iff the acting piece's colour is the side to move and negative
\* otherwise; no target after the first enemy-coloured one is processed.
C13_WalkTiers ==
  InVision =>
    /\ WalkTiers
    /\ \A i \in 1..Len(walk) :
         IF call.board[sq].color = call.us
         THEN walk[i].added > 0
         ELSE walk[i].added < 0

\* C13 as the code has it: the amount carries the sign of the acting piece
\* (plus for the side to move, minus otherwise) and is zero, neither positive
\* nor negative, when the target is a king, whose value is 0.0.
C13_WalkTiersSigned ==
  InVision =>
    /\ WalkTiers
    /\ \A i \in 1..Len(walk) :
         /\ call.board[sq].color = call.us => walk[i].added >= 0
         /\ call.board[sq].color # call.us => walk[i].added <= 0
         /\ walk[i].added = 0 <=> TargetValue(i) = 0

\* a piece of the side not to move has walked past a target of the mover's
\* colour onto an enemy-coloured one of nonzero value, with a target left over
C13_Witness ==
  /\ WalkEnded
  /\ Len(walk) = 2
  /\ Len(targets) >= 3
  /\ TargetIsEnemy(2)
  /\ call.board[sq].color # call.us
  /\ walk[2].added < 0

\* C14: every walk processes at most two targets; opacity only takes the
\* values 1.0, 0.2, 0.04 and 0 and never increases; a second target is
\* processed only if the first has the colour of the side to move; the walk
\* stops after the second target whatever its colour; only a processed
\* target changes the score, so the third-nearest and farther ones never do.
C14_AtMostTwoTargets ==
  /\ [](InVision =>
          /\ Len(walk) <= 2
          /\ 25 * opacity \in {0, OpacityDen, 5 * OpacityDen, 25 * OpacityDen}
          /\ \A i \in 1..Len(walk) :
               /\ 25 * walk[i].before \in {5 * OpacityDen, 25 * OpacityDen}
               /\ OpacityAfter(i) <= walk[i].before
          /\ Len(walk) = 2 => TargetColor(1) = call.us
          /\ Len(walk) = 2 => vpc # "walk")
  /\ [][vision_score' # vision_score =>
          /\ Len(walk') = Len(walk) + 1
          /\ walk'[Len(walk')].target_sq \in {targets[1][2], targets[2][2]}
          /\ vision_score' = vision_score + walk'[Len(walk')].added]_vars

\* a walk stopped at opacity 0.04 after two friendly-coloured targets, with a
\* third target left unprocessed
C14_Witness ==
  /\ WalkEnded
  /\ Len(walk) = 2
  /\ Len(targets) >= 3
  /\ 25 * opacity = OpacityDen
  /\ walk[2].added # 0

(***************************************************************************)
(* Claims about the integer arithmetic of reverse                          *)
(***************************************************************************)
\* C15: for every lane index 0..31 reverse computes k*(k-1)/2 mod 2 in u32
\* without underflow or overflow (k - 1 does not wrap, no step panics), the
\* scalar lane with k = 0 included, so reverse returns a value on any input.
C15_ReverseSignTestInRange ==
  Returned("revrev") =>
    /\ \A i \in Lanes :
         LET d == U32SubOne(count_ones(i))
         IN  d.ok /\ d.hi = 0 /\ reverse_test(i).ok
    /\ ret.ok


(***************************************************************************)
(* Claims about the lazily built tables                                    *)
(***************************************************************************)
\* C12: under any interleaving of first accesses by the threads, the builder
\* of each of CAYLEY_TABLE, GP_MAP and BOARD_SPACE runs exactly once; every
\* access yields the same completely built table, never a partial one; and
\* no step writes to a table once it is built.
C12_BuiltOnceAndImmutable ==
  /\ [](\A T \in Tables :
          /\ runs[T] <= 1
          /\ (lazy_state[T] = "Complete" \/ seen[T] # {}) => runs[T] = 1
          /\ \A v \in seen[T] : v = lazy_value[T] /\ v.rows = Rows
          /\ \A t \in Threads : \A i \in 1..Len(frames[t]) :
               lazy_state[frames[t][i].table] = "Running")
  /\ [][\A T \in Tables :
          lazy_state[T] = "Complete" =>
            lazy_state'[T] = "Complete" /\ lazy_value'[T] = lazy_value[T]]_vars

\* every thread has finished its operations, all three tables were accessed,
\* and GP_MAP was built by one thread while another built CAYLEY_TABLE
C12_Witness ==
  /\ \A t \in Threads : ops[t] = MaxOps
  /\ \A T \in Tables : seen[T] # {}
  /\ lazy_value["GP_MAP"].by # lazy_value["CAYLEY_TABLE"].by

=============================================================================
